---- MODULE Spec2Model ----
(***************************************************************************)
(* Model of the resumable ingestion-and-classification pipeline:           *)
(*   src/analysis/fetch_issues.py  (fetch pipeline, checkpoint, log)       *)
(*   src/analysis/analyze.py       (enrichment, classifier, aggregator)    *)
(***************************************************************************)
EXTENDS Integers, Sequences, FiniteSets, TLC

\* ------------------------------------------------------------------ bounds
MaxItems == 3        \* longest result set of the remote source
MaxPageSize == 2     \* largest page size (--page-size)
MaxRuns == 3         \* fetch processes started one after the other
MaxPageIndex == 4    \* cap on the page counter of one fetch run
MaxIssues == 2       \* largest collection read by analyze.main
MaxAnalyzeRuns == 3  \* analyze processes started one after the other
MaxLogLen == 3       \* longest log handed to the finalization step alone

\* ---------------------------------------------------------------- values
None == "None"       \* Python None where the other values are strings
NoToken == <<>>      \* no cursor (None); a cursor is <<offset>>
Absent == <<>>       \* a missing file; a file holding c is <<c>>
NoData == [issues |-> <<>>, nextPageToken |-> NoToken, isLast |-> FALSE]
NoKey == "NoKey"     \* an issue whose "key" is missing or empty (falsy)
Keys == {"K1", "K2", "K3"}

VARIABLES
    \* ---- environment of the fetch pipeline
    resultSet,        \* the issues the remote search returns, in order
    page_size,        \* maxResults
    \* ---- files of the fetch pipeline
    partial_file,     \* issues_partial.jsonl : sequence of records (keys)
    checkpoint_file,  \* fetch_checkpoint.json : None or a checkpoint
    tmp_file,         \* fetch_checkpoint.tmp
    out_json,         \* issues_data.json : None or a sequence of records
    \* ---- the fetch process
    pc,               \* position of the fetch process
    saved_keys, token, page_index, data, pos,
    exit_code,        \* exit status of the last fetch process, None if none
    runs,             \* fetch processes started so far
    \* ---- history of the current fetch run
    partial0,         \* partial_file when the run started
    out_json0,        \* out_json when the run started
    fellBack          \* the run took the restart-from-beginning fallback

fetchVars == <<resultSet, page_size, partial_file, checkpoint_file, tmp_file,
               out_json, pc, saved_keys, token, page_index, data, pos,
               exit_code, runs, partial0, out_json0, fellBack>>

VARIABLES
    \* ---- environment of the enrichment pipeline
    issues_all,        \* the consolidated collection read by analyze.main
    client_available,  \* OpenAI(...) can be constructed (API key present)
    \* ---- files of the enrichment pipeline
    servers_per_issue, \* server_mentions.jsonl : records {key, servers}
    tech_per_issue,    \* technology_annotations.jsonl : records {key, label}
    tech_counts,       \* technology_counts.jsonl
    server_counts,     \* server_counts.jsonl
    unresolved_json,   \* unresolved_servers_tickets.json
    \* ---- the analyze process
    apc,               \* position of the analyze process
    idx,               \* index of the current issue in the loop
    processed_complete, processed_this_run,
    client,            \* the module-level _client
    aruns,             \* analyze processes started so far
    \* ---- history of the analyze runs
    servers0, tech0,   \* the two logs when the current run started
    loop_exit,         \* how the loop of the current run ended
    mid_item_stop,     \* some run was stopped between the two appends
    calls,             \* requests sent by the last classify_technology call
    first_attempt      \* what the first request of that call did

analyzeVars == <<issues_all, client_available, servers_per_issue,
                 tech_per_issue, tech_counts, server_counts, unresolved_json,
                 apc, idx, processed_complete, processed_this_run, client,
                 aruns, servers0, tech0, loop_exit, mid_item_stop, calls,
                 first_attempt>>

VARIABLES
    \* ---- one call of classify_technology from outside main
    g_text,            \* the argument of the call
    g_available,       \* get_client() can construct the client
    g_first, g_second, \* what the service does on the first and second request
    g_result,          \* what the call returned or raised, Absent before
    gpc                \* position of the caller

gatewayVars == <<g_text, g_available, g_first, g_second, g_result, gpc>>

vars == <<fetchVars, analyzeVars, gatewayVars>>

\* ------------------------------------------------------------- helpers
Range(s) == {s[i] : i \in 1..Len(s)}

Min(a, b) == IF a < b THEN a ELSE b

SeqsUpTo(S, n) == UNION {[1..m -> S] : m \in 0..n}

\* ------------------------------------------------ remote search endpoint
\* A cursor is the offset of the next page in the result set.
Offset(tok) == IF tok = NoToken THEN 0 ELSE tok[1]

SearchResponse(tok) ==
    LET off  == Offset(tok)
        last == Min(off + page_size, Len(resultSet))
        more == off + page_size < Len(resultSet)
    IN  [issues        |-> SubSeq(resultSet, off + 1, last),
         nextPageToken |-> IF more THEN <<off + page_size>> ELSE NoToken,
         isLast        |-> ~more]

\* ------------------------------------------------------- durable log
\* A log is a sequence of lines.  A line is a record (its key), or it does
\* not parse: the beginning of a record left without its newline by a write
\* that was cut short (only ever the last line), or a terminated line made of
\* such a beginning and what was written after it.
PartialLine == "partial"

CorruptLine == "corrupt"

Unparseable == {PartialLine, CorruptLine}

\* load_saved_keys: the keys of the lines that parse
load_saved_keys(log) ==
    {log[i] : i \in 1..Len(log)} \ ({NoKey} \cup Unparseable)

\* append_issue with the record written at the head of the file
append_issue_AtFront(log, k) == <<k>> \o log

\* append_issue: the file is opened with "a" and the record and its newline
\* are written at the end, right after whatever the last line holds
append_issue(log, k) ==
    IF log # <<>> /\ log[Len(log)] = PartialLine
    THEN [log EXCEPT ![Len(log)] = CorruptLine]
    ELSE Append(log, k)

\* the write of append_issue cut short by a kill
append_issue_cut(log) ==
    IF log # <<>> /\ log[Len(log)] = PartialLine
    THEN log
    ELSE Append(log, PartialLine)

\* materialize_json_from_jsonl: every line of the log that parses, in order
materialize_json_from_jsonl(log) ==
    SelectSeq(log, LAMBDA line : line \notin Unparseable)

\* ------------------------------------------------------- checkpoint
\* a text that was cut short while it was written (a strict prefix of the
\* JSON text of d, which does not parse)
PartialText(d) == <<d, "cut">>

\* read_checkpoint: {} when the file is missing or unreadable
read_checkpoint(file) == IF Len(file) = 1 THEN file ELSE Absent

\* write_checkpoint, first half: the text written to the temporary file
checkpoint_tmp(d) == <<d>>

\* ------------------------------------------------------- fetch pipeline

\* FetchStart without load_saved_keys: the run forgets what the log holds
FetchStart_ForgetsLog ==
    /\ UNCHANGED <<analyzeVars, gatewayVars>>
    /\ pc \in {"idle", "done", "exited", "failed", "killed"}
    /\ runs < MaxRuns
    /\ runs' = runs + 1
    /\ saved_keys' = {}
    /\ LET checkpoint == read_checkpoint(checkpoint_file)
       IN  token' = IF checkpoint # Absent THEN checkpoint[1].nextPageToken
                    ELSE NoToken
    /\ page_index' = 0
    /\ data' = NoData
    /\ pos' = 0
    /\ exit_code' = None
    /\ partial0' = partial_file
    /\ out_json0' = out_json
    /\ fellBack' = FALSE
    /\ pc' = "request"
    /\ UNCHANGED <<resultSet, page_size, partial_file, checkpoint_file,
                   tmp_file, out_json>>

\* fetch_and_save up to the first request of fetch_all_basic_resumable
FetchStart ==
    /\ UNCHANGED <<analyzeVars, gatewayVars>>
    /\ pc \in {"idle", "done", "exited", "failed", "killed"}
    /\ runs < MaxRuns
    /\ runs' = runs + 1
    /\ saved_keys' = load_saved_keys(partial_file)
    /\ LET checkpoint == read_checkpoint(checkpoint_file)
       IN  token' = IF checkpoint # Absent THEN checkpoint[1].nextPageToken
                    ELSE NoToken
    /\ page_index' = 0
    /\ data' = NoData
    /\ pos' = 0
    /\ exit_code' = None
    /\ partial0' = partial_file
    /\ out_json0' = out_json
    /\ fellBack' = FALSE
    /\ pc' = "request"
    /\ UNCHANGED <<resultSet, page_size, partial_file, checkpoint_file,
                   tmp_file, out_json>>

\* _post succeeds; an empty page ends the loop
PostOk ==
    /\ UNCHANGED <<analyzeVars, gatewayVars>>
    /\ pc = "request"
    /\ LET d == SearchResponse(token)
       IN  IF d.issues = <<>>
           THEN /\ pc' = "returned"
                /\ UNCHANGED <<data, pos>>
           ELSE /\ data' = d
                /\ pos' = 1
                /\ pc' = "items"
    /\ UNCHANGED <<resultSet, page_size, partial_file, checkpoint_file,
                   tmp_file, out_json, saved_keys, token, page_index,
                   exit_code, runs, partial0, out_json0, fellBack>>

\* PostHTTPError without the "if token" test: every rejection falls back
PostHTTPError_AlwaysFallsBack ==
    /\ UNCHANGED <<analyzeVars, gatewayVars>>
    /\ pc = "request"
    /\ token' = NoToken
    /\ fellBack' = TRUE
    /\ UNCHANGED <<resultSet, page_size, partial_file, checkpoint_file,
                   tmp_file, out_json, pc, saved_keys, page_index, data, pos,
                   exit_code, runs, partial0, out_json0>>

\* _post raises requests.HTTPError: fall back when a cursor was sent,
\* propagate otherwise
PostHTTPError ==
    /\ UNCHANGED <<analyzeVars, gatewayVars>>
    /\ pc = "request"
    /\ IF token # NoToken
       THEN /\ token' = NoToken
            /\ fellBack' = TRUE
            /\ UNCHANGED <<pc, exit_code>>
       ELSE /\ pc' = "failed"
            /\ exit_code' = "1"
            /\ UNCHANGED <<token, fellBack>>
    /\ UNCHANGED <<resultSet, page_size, partial_file, checkpoint_file,
                   tmp_file, out_json, saved_keys, page_index, data, pos,
                   runs, partial0, out_json0>>

\* _post raises another exception (timeout, connection error): propagates
PostOtherError ==
    /\ UNCHANGED <<analyzeVars, gatewayVars>>
    /\ pc = "request"
    /\ pc' = "failed"
    /\ exit_code' = "1"
    /\ UNCHANGED <<resultSet, page_size, partial_file, checkpoint_file,
                   tmp_file, out_json, saved_keys, token, page_index, data,
                   pos, runs, partial0, out_json0, fellBack>>


\* ProcessIssue without the "k in saved_keys" test
ProcessIssue_NoDedup ==
    /\ UNCHANGED <<analyzeVars, gatewayVars>>
    /\ pc = "items"
    /\ pos <= Len(data.issues)
    /\ LET k == data.issues[pos]
       IN  IF k = NoKey
           THEN UNCHANGED <<partial_file, saved_keys>>
           ELSE /\ partial_file' = append_issue(partial_file, k)
                /\ saved_keys' = saved_keys \cup {k}
    /\ pos' = pos + 1
    /\ UNCHANGED <<resultSet, page_size, checkpoint_file, tmp_file, out_json,
                   pc, token, page_index, data, exit_code, runs, partial0,
                   out_json0, fellBack>>

\* one iteration of "for issue in issues"
ProcessIssue ==
    /\ UNCHANGED <<analyzeVars, gatewayVars>>
    /\ pc = "items"
    /\ pos <= Len(data.issues)
    /\ LET k == data.issues[pos]
       IN  IF k = NoKey \/ k \in saved_keys
           THEN UNCHANGED <<partial_file, saved_keys>>
           ELSE /\ partial_file' = append_issue(partial_file, k)
                /\ saved_keys' = saved_keys \cup {k}
    /\ pos' = pos + 1
    /\ UNCHANGED <<resultSet, page_size, checkpoint_file, tmp_file, out_json,
                   pc, token, page_index, data, exit_code, runs, partial0,
                   out_json0, fellBack>>

\* page_index += 1; the counter is only printed and stored in the
\* checkpoint, and the model stops counting at MaxPageIndex
next_page_index == Min(page_index + 1, MaxPageIndex)

\* the checkpoint written at the end of the current page
checkpoint_data ==
    [page_size     |-> page_size,
     nextPageToken |-> data.nextPageToken,
     saved_unique  |-> Cardinality(saved_keys),
     page_index    |-> next_page_index,
     isLast        |-> data.isLast]

\* end of the page: count it, take the new cursor, write the temporary
\* checkpoint file (write_checkpoint, first half)
PageDone ==
    /\ UNCHANGED <<analyzeVars, gatewayVars>>
    /\ pc = "items"
    /\ pos > Len(data.issues)
    /\ page_index' = next_page_index
    /\ token' = data.nextPageToken
    /\ tmp_file' = checkpoint_tmp(checkpoint_data)
    /\ pc' = "replace"
    /\ UNCHANGED <<resultSet, page_size, partial_file, checkpoint_file,
                   out_json, saved_keys, data, pos, exit_code, runs,
                   partial0, out_json0, fellBack>>

\* write_checkpoint, second half: tmp.replace(path); then the isLast test
CheckpointReplace ==
    /\ UNCHANGED <<analyzeVars, gatewayVars>>
    /\ pc = "replace"
    /\ checkpoint_file' = tmp_file
    /\ tmp_file' = Absent
    /\ pc' = IF data.isLast THEN "returned" ELSE "request"
    /\ UNCHANGED <<resultSet, page_size, partial_file, out_json, saved_keys,
                   token, page_index, data, pos, exit_code, runs, partial0,
                   out_json0, fellBack>>

\* fetch_and_save after fetch_all_basic_resumable returned
Materialize ==
    /\ UNCHANGED <<analyzeVars, gatewayVars>>
    /\ pc = "returned"
    /\ out_json' = <<materialize_json_from_jsonl(partial_file)>>
    /\ pc' = "done"
    /\ exit_code' = "0"
    /\ UNCHANGED <<resultSet, page_size, partial_file, checkpoint_file,
                   tmp_file, saved_keys, token, page_index, data, pos, runs,
                   partial0, out_json0, fellBack>>


\* FetchInterrupt with a handler that goes on to materialize
FetchInterrupt_Finalizes ==
    /\ UNCHANGED <<analyzeVars, gatewayVars>>
    /\ pc \in {"request", "items", "replace"}
    /\ pc' = "exited"
    /\ exit_code' = "130"
    /\ out_json' = <<materialize_json_from_jsonl(partial_file)>>
    /\ UNCHANGED <<resultSet, page_size, partial_file, checkpoint_file,
                   tmp_file, saved_keys, token, page_index, data,
                   pos, runs, partial0, out_json0, fellBack>>

\* KeyboardInterrupt inside fetch_all_basic_resumable and its handler
\* in fetch_and_save
FetchInterrupt ==
    /\ UNCHANGED <<analyzeVars, gatewayVars>>
    /\ pc \in {"request", "items", "replace"}
    /\ pc' = "exited"
    /\ exit_code' = "130"
    /\ UNCHANGED <<resultSet, page_size, partial_file, checkpoint_file,
                   tmp_file, out_json, saved_keys, token, page_index, data,
                   pos, runs, partial0, out_json0, fellBack>>

\* FetchKilled when write_checkpoint writes the checkpoint file in place
FetchKilled_WritesInPlace ==
    /\ UNCHANGED <<analyzeVars, gatewayVars>>
    /\ pc \in {"request", "items", "replace"}
    /\ pc' = "killed"
    /\ exit_code' = "killed"
    /\ IF pc = "items" /\ pos > Len(data.issues)
       THEN checkpoint_file' \in {checkpoint_file, PartialText(checkpoint_data)}
       ELSE checkpoint_file' = checkpoint_file
    /\ UNCHANGED <<resultSet, page_size, partial_file, tmp_file, out_json,
                   saved_keys, token, page_index, data, pos, runs, partial0,
                   out_json0, fellBack>>

\* the process is killed (SIGKILL, crash) inside fetch_all_basic_resumable:
\* no handler runs; a kill inside tmp.write_text leaves the temporary file
\* cut short
FetchKilled ==
    /\ UNCHANGED <<analyzeVars, gatewayVars>>
    /\ pc \in {"request", "items", "replace"}
    /\ pc' = "killed"
    /\ exit_code' = "killed"
    /\ IF pc = "items" /\ pos > Len(data.issues)
       THEN tmp_file' \in {tmp_file, PartialText(checkpoint_data)}
       ELSE tmp_file' = tmp_file
    /\ UNCHANGED <<resultSet, page_size, partial_file, checkpoint_file,
                   out_json, saved_keys, token, page_index, data, pos, runs,
                   partial0, out_json0, fellBack>>

FetchInit ==
    /\ resultSet \in SeqsUpTo(Keys \cup {NoKey}, MaxItems)
    /\ page_size \in 1..MaxPageSize
    /\ partial_file = <<>>
    /\ checkpoint_file = Absent
    /\ tmp_file = Absent
    /\ out_json = Absent
    /\ pc = "idle"
    /\ saved_keys = {}
    /\ token = NoToken
    /\ page_index = 0
    /\ data = NoData
    /\ pos = 0
    /\ exit_code = None
    /\ runs = 0
    /\ partial0 = <<>>
    /\ out_json0 = Absent
    /\ fellBack = FALSE

Next ==
    \/ FetchStart
    \/ PostOk
    \/ PostHTTPError
    \/ PostOtherError
    \/ ProcessIssue
    \/ PageDone
    \/ CheckpointReplace
    \/ Materialize
    \/ FetchInterrupt
    \/ FetchKilled

\* the steps of the thread that runs fetch_and_save
FetchStep ==
    \/ PostOk
    \/ PostHTTPError
    \/ PostOtherError
    \/ ProcessIssue
    \/ PageDone
    \/ CheckpointReplace
    \/ Materialize

\* =====================================================================
\*                     analyze.py : enrichment pipeline
\* =====================================================================
ISSUE_LIMIT == 0     \* 0 = all

\* ------------------------------------------------------ entity extractor
\* A text is a sequence of whitespace-separated words.  SRV_REGEX
\* (\bsrv-[a-z0-9]{2,10}\b, IGNORECASE) matches these words as a whole;
\* "srv-x" has a one-character suffix and does not match.
ServerWords == {"srv-ab1", "SRV-AB1", "srv-db02"}

LowerWord(w) == IF w = "SRV-AB1" THEN "srv-ab1" ELSE w

RECURSIVE extract_servers(_)
extract_servers(text) ==
    IF text = <<>> THEN <<>>
    ELSE IF Head(text) \in ServerWords
         THEN <<LowerWord(Head(text))>> \o extract_servers(Tail(text))
         ELSE extract_servers(Tail(text))

\* text = f"{summary}\n{desc}".strip()
WorkingText(issue) == issue.summary \o issue.description

\* ------------------------------------------------------ classifier gateway
\* Labels and raw responses are sequences of characters.
L_database == <<"d", "a", "t", "a", "b", "a", "s", "e">>
L_networking == <<"n", "e", "t", "w", "o", "r", "k", "i", "n", "g">>
L_authentication == <<"a", "u", "t", "h", "e", "n", "t", "i", "c", "a", "t", "i", "o", "n">>
L_api == <<"a", "p", "i">>
L_storage == <<"s", "t", "o", "r", "a", "g", "e">>

TECH_LABELS == {L_database, L_networking, L_authentication, L_api, L_storage}

ALLOWED == TECH_LABELS

UNCLASSIFIED_LABEL == <<"u", "n", "c", "l", "a", "s", "s", "i", "f", "i", "e", "d">>

Whitespace == {" ", "\n"}

\* the backquote character (it cannot be written inside a TLA+ string)
Backquote == "backquote"

\* the characters that raw.strip(...) removes: backquote, quotes, space
QuoteChars == {Backquote, "\"", "'", " "}

LowerChar(c) ==
    CASE c = "A" -> "a"
      [] c = "D" -> "d"
      [] c = "I" -> "i"
      [] c = "P" -> "p"
      [] OTHER -> c

\* str.lower
Lower(str) == [i \in 1..Len(str) |-> LowerChar(str[i])]

RECURSIVE LStrip(_, _)
LStrip(str, chars) ==
    IF str # <<>> /\ Head(str) \in chars THEN LStrip(Tail(str), chars) ELSE str

RECURSIVE RStrip(_, _)
RStrip(str, chars) ==
    IF str # <<>> /\ str[Len(str)] \in chars
    THEN RStrip(SubSeq(str, 1, Len(str) - 1), chars)
    ELSE str

\* str.strip(chars)
Strip(str, chars) == RStrip(LStrip(str, chars), chars)

RECURSIVE TakeWord(_)
TakeWord(str) ==
    IF str = <<>> \/ Head(str) \in Whitespace THEN <<>>
    ELSE <<Head(str)>> \o TakeWord(Tail(str))

\* str.split(): <<>> when there is no word, else <<first word>>
SplitFirst(str) ==
    LET rest == LStrip(str, Whitespace)
    IN  IF rest = <<>> THEN <<>> ELSE <<TakeWord(rest)>>

\* What one request to the service does: it raises (transport or service
\* error, timeout, no choices) or it answers with a content string.
RawResponses ==
    { <<"d", "a", "t", "a", "b", "a", "s", "e">>,
      <<"D", "a", "t", "a", "b", "a", "s", "e", ".">>,
      <<"b", "a", "n", "a", "n", "a">>,
      <<>>,
      <<"\"", "a", "p", "i", "\"">>,
      <<" ", "A", "P", "I", "\n">>,
      <<"a", "p", "i", " ", "i", "s", "s", "u", "e">>,
      <<"\"", "\"">> }

Attempts == {[err |-> TRUE, content |-> <<>>]}
            \cup {[err |-> FALSE, content |-> c] : c \in RawResponses}

\* ask_once: the label, or an exception
ask_once(attempt) ==
    IF attempt.err THEN [raised |-> TRUE, label |-> <<>>]
    ELSE LET raw == Lower(Strip(attempt.content, Whitespace))
         IN  IF raw = <<>> THEN [raised |-> FALSE, label |-> <<>>]
             ELSE LET words == SplitFirst(Strip(raw, QuoteChars))
                  IN  IF words = <<>>
                      THEN [raised |-> TRUE, label |-> <<>>]   \* IndexError
                      ELSE [raised |-> FALSE, label |-> words[1]]


\* classify_technology with the second request also sent after an exception
\* of the first
classify_technology_RetriesOnError(text, available, a1, a2) ==
    IF Strip(text, Whitespace) = <<>>
    THEN [raised |-> FALSE, label |-> UNCLASSIFIED_LABEL, calls |-> 0]
    ELSE IF ~available
    THEN [raised |-> TRUE, label |-> <<>>, calls |-> 0]
    ELSE LET r1 == ask_once(a1)
             r2 == ask_once(a2)
         IN  IF ~r1.raised /\ r1.label \in ALLOWED
             THEN [raised |-> FALSE, label |-> r1.label, calls |-> 1]
             ELSE IF r2.raised
             THEN [raised |-> FALSE, label |-> UNCLASSIFIED_LABEL, calls |-> 2]
             ELSE [raised |-> FALSE,
                   label |-> IF r2.label \in ALLOWED THEN r2.label
                             ELSE UNCLASSIFIED_LABEL,
                   calls |-> 2]

\* classify_technology that tests "not text" only, without text.strip()
classify_technology_NoStripTest(text, available, a1, a2) ==
    IF text = <<>>
    THEN [raised |-> FALSE, label |-> UNCLASSIFIED_LABEL, calls |-> 0]
    ELSE IF ~available
    THEN [raised |-> TRUE, label |-> <<>>, calls |-> 0]
    ELSE LET r1 == ask_once(a1)
             r2 == ask_once(a2)
         IN  IF r1.raised
             THEN [raised |-> FALSE, label |-> UNCLASSIFIED_LABEL, calls |-> 1]
             ELSE IF r1.label \in ALLOWED
             THEN [raised |-> FALSE, label |-> r1.label, calls |-> 1]
             ELSE IF r2.raised
             THEN [raised |-> FALSE, label |-> UNCLASSIFIED_LABEL, calls |-> 2]
             ELSE [raised |-> FALSE,
                   label |-> IF r2.label \in ALLOWED THEN r2.label
                             ELSE UNCLASSIFIED_LABEL,
                   calls |-> 2]

\* classify_technology returning the second label as it is
classify_technology_ReturnsRaw(text, available, a1, a2) ==
    IF Strip(text, Whitespace) = <<>>
    THEN [raised |-> FALSE, label |-> UNCLASSIFIED_LABEL, calls |-> 0]
    ELSE IF ~available
    THEN [raised |-> TRUE, label |-> <<>>, calls |-> 0]
    ELSE LET r1 == ask_once(a1)
             r2 == ask_once(a2)
         IN  IF r1.raised
             THEN [raised |-> FALSE, label |-> UNCLASSIFIED_LABEL, calls |-> 1]
             ELSE IF r1.label \in ALLOWED
             THEN [raised |-> FALSE, label |-> r1.label, calls |-> 1]
             ELSE IF r2.raised
             THEN [raised |-> FALSE, label |-> UNCLASSIFIED_LABEL, calls |-> 2]
             ELSE [raised |-> FALSE, label |-> r2.label, calls |-> 2]

\* classify_technology(text) when the service behaves as a1 on the first
\* request and as a2 on the second: the label returned or the exception
\* raised to the caller, and the number of requests sent.
classify_technology(text, available, a1, a2) ==
    IF Strip(text, Whitespace) = <<>>
    THEN [raised |-> FALSE, label |-> UNCLASSIFIED_LABEL, calls |-> 0]
    ELSE IF ~available
    THEN [raised |-> TRUE, label |-> <<>>, calls |-> 0]         \* get_client
    ELSE LET r1 == ask_once(a1)
             r2 == ask_once(a2)
         IN  IF r1.raised
             THEN [raised |-> FALSE, label |-> UNCLASSIFIED_LABEL, calls |-> 1]
             ELSE IF r1.label \in ALLOWED
             THEN [raised |-> FALSE, label |-> r1.label, calls |-> 1]
             ELSE IF r2.raised
             THEN [raised |-> FALSE, label |-> UNCLASSIFIED_LABEL, calls |-> 2]
             ELSE [raised |-> FALSE,
                   label |-> IF r2.label \in ALLOWED THEN r2.label
                             ELSE UNCLASSIFIED_LABEL,
                   calls |-> 2]

\* what a call of classify_technology can do, over all behaviours of the
\* service: its result, the requests sent, and what the first request did.
\* The text matters only through being blank or not (it is otherwise only
\* embedded in the request).
OutcomesOver(text, available) ==
    {LET r == classify_technology(text, available, a1, a2)
     IN  [raised |-> r.raised, label |-> r.label, calls |-> r.calls,
          first |-> IF r.calls = 0 THEN "none"
                    ELSE IF a1.err THEN "error" ELSE "answer"]
     : a1 \in Attempts, a2 \in Attempts}

OutcomesBlank == OutcomesOver(<<>>, TRUE) \cup OutcomesOver(<<>>, FALSE)

OutcomesNoClient == OutcomesOver(<<"text">>, FALSE)

OutcomesService == OutcomesOver(<<"text">>, TRUE)

\* ------------------------------------------------------ JSONL helpers
\* load_processed_keys_from_jsonl(path, "key")
load_processed_keys_from_jsonl(log) == {log[i].key : i \in 1..Len(log)}

\* append_jsonl
append_jsonl(log, obj) == Append(log, obj)

\* ------------------------------------------------------ aggregation
Occurrences(elems, x) == Cardinality({i \in 1..Len(elems) : elems[i] = x})

\* the number of occurrences of the element at index i
OccurrencesOfAt(elems, i) ==
    Cardinality({k \in 1..Len(elems) : elems[k] = elems[i]})

\* the indices of the first occurrences: the keys of the Counter, which
\* keeps them in insertion order
FirstIndices(elems) ==
    {i \in 1..Len(elems) : \A j \in 1..(i - 1) : elems[j] # elems[i]}

\* the element first seen at j is listed before the one first seen at i
ListedBefore(elems, j, i) ==
    \/ OccurrencesOfAt(elems, j) > OccurrencesOfAt(elems, i)
    \/ OccurrencesOfAt(elems, j) = OccurrencesOfAt(elems, i) /\ j < i

\* Counter(elems).most_common(): descending count, ties in first-seen order
most_common(elems) ==
    [r \in 1..Cardinality(FirstIndices(elems)) |->
        LET i == CHOOSE i \in FirstIndices(elems) :
                     Cardinality({j \in FirstIndices(elems) :
                                      ListedBefore(elems, j, i)}) = r - 1
        IN  [item |-> elems[i], count |-> OccurrencesOfAt(elems, i)]]

\* the labels counted by tech_counter, one per line of the log
RECURSIVE TechLabelsCounted(_)
TechLabelsCounted(log) ==
    IF log = <<>> THEN <<>>
    ELSE Append(TechLabelsCounted(SubSeq(log, 1, Len(log) - 1)),
                log[Len(log)].label)

\* the servers counted by server_counter, line after line
RECURSIVE ServersCounted(_)
ServersCounted(log) ==
    IF log = <<>> THEN <<>>
    ELSE ServersCounted(SubSeq(log, 1, Len(log) - 1)) \o log[Len(log)].servers

keys_with_servers(log) ==
    {log[i].key : i \in {j \in 1..Len(log) : log[j].servers # <<>>}}

\* the unresolved report: the issues of the collection without a server
Unresolved(all, log) ==
    SelectSeq([i \in 1..Len(all) |-> [key |-> all[i].key, summary |-> all[i].summary]],
              LAMBDA e : e.key \notin keys_with_servers(log))

\* ------------------------------------------------------ analyze.main
Issues == IF ISSUE_LIMIT > 0 THEN SubSeq(issues_all, 1, Min(ISSUE_LIMIT, Len(issues_all)))
          ELSE issues_all


\* AnalyzeStart with no issue taken as complete
AnalyzeStart_NoResume ==
    /\ UNCHANGED <<fetchVars, gatewayVars>>
    /\ apc \in {"idle", "done"}
    /\ aruns < MaxAnalyzeRuns
    /\ aruns' = aruns + 1
    /\ processed_complete' = {}
    /\ processed_this_run' = 0
    /\ idx' = 1
    /\ client' = None
    /\ servers0' = servers_per_issue
    /\ tech0' = tech_per_issue
    /\ loop_exit' = "running"
    /\ calls' = 0
    /\ first_attempt' = "none"
    /\ apc' = "loop"
    /\ UNCHANGED <<issues_all, client_available, servers_per_issue,
                   tech_per_issue, tech_counts, server_counts,
                   unresolved_json, mid_item_stop>>

\* AnalyzeStart with an issue taken as complete when it is in either log
AnalyzeStart_EitherLog ==
    /\ UNCHANGED <<fetchVars, gatewayVars>>
    /\ apc \in {"idle", "done"}
    /\ aruns < MaxAnalyzeRuns
    /\ aruns' = aruns + 1
    /\ processed_complete' = 
           load_processed_keys_from_jsonl(tech_per_issue)
           \cup load_processed_keys_from_jsonl(servers_per_issue)
    /\ processed_this_run' = 0
    /\ idx' = 1
    /\ client' = None
    /\ servers0' = servers_per_issue
    /\ tech0' = tech_per_issue
    /\ loop_exit' = "running"
    /\ calls' = 0
    /\ first_attempt' = "none"
    /\ apc' = "loop"
    /\ UNCHANGED <<issues_all, client_available, servers_per_issue,
                   tech_per_issue, tech_counts, server_counts,
                   unresolved_json, mid_item_stop>>

\* main up to the loop: read the collection and the two logs
AnalyzeStart ==
    /\ UNCHANGED <<fetchVars, gatewayVars>>
    /\ apc \in {"idle", "done"}
    /\ aruns < MaxAnalyzeRuns
    /\ aruns' = aruns + 1
    /\ processed_complete' =
           load_processed_keys_from_jsonl(tech_per_issue)
           \cap load_processed_keys_from_jsonl(servers_per_issue)
    /\ processed_this_run' = 0
    /\ idx' = 1
    /\ client' = None
    /\ servers0' = servers_per_issue
    /\ tech0' = tech_per_issue
    /\ loop_exit' = "running"
    /\ calls' = 0
    /\ first_attempt' = "none"
    /\ apc' = "loop"
    /\ UNCHANGED <<issues_all, client_available, servers_per_issue,
                   tech_per_issue, tech_counts, server_counts,
                   unresolved_json, mid_item_stop>>

\* an issue that is already complete
SkipIssue ==
    /\ UNCHANGED <<fetchVars, gatewayVars>>
    /\ apc = "loop"
    /\ idx <= Len(Issues)
    /\ Issues[idx].key \in processed_complete
    /\ idx' = idx + 1
    /\ UNCHANGED <<issues_all, client_available, servers_per_issue,
                   tech_per_issue, tech_counts, server_counts,
                   unresolved_json, apc, processed_complete,
                   processed_this_run, client, aruns, servers0, tech0,
                   loop_exit, mid_item_stop, calls, first_attempt>>

\* ExtractIssue that records an issue only when it mentions a server
ExtractIssue_SkipsEmpty ==
    /\ UNCHANGED <<fetchVars, gatewayVars>>
    /\ apc = "loop"
    /\ idx <= Len(Issues)
    /\ Issues[idx].key \notin processed_complete
    /\ servers_per_issue' =
           IF extract_servers(WorkingText(Issues[idx])) = <<>>
           THEN servers_per_issue
           ELSE append_jsonl(servers_per_issue,
                             [key |-> Issues[idx].key,
                              servers |-> extract_servers(WorkingText(Issues[idx]))])
    /\ apc' = "classify"
    /\ UNCHANGED <<issues_all, client_available, tech_per_issue, tech_counts,
                   server_counts, unresolved_json, idx, processed_complete,
                   processed_this_run, client, aruns, servers0, tech0,
                   loop_exit, mid_item_stop, calls, first_attempt>>

\* first half of the loop body: extract and append to the extraction log
ExtractIssue ==
    /\ UNCHANGED <<fetchVars, gatewayVars>>
    /\ apc = "loop"
    /\ idx <= Len(Issues)
    /\ Issues[idx].key \notin processed_complete
    /\ servers_per_issue' =
           append_jsonl(servers_per_issue,
                        [key |-> Issues[idx].key,
                         servers |-> extract_servers(WorkingText(Issues[idx]))])
    /\ apc' = "classify"
    /\ UNCHANGED <<issues_all, client_available, tech_per_issue, tech_counts,
                   server_counts, unresolved_json, idx, processed_complete,
                   processed_this_run, client, aruns, servers0, tech0,
                   loop_exit, mid_item_stop, calls, first_attempt>>

\* second half of the loop body: classify and append to the classification
\* log; an exception out of classify_technology is caught by main
ClassifyIssue ==
    /\ UNCHANGED <<fetchVars, gatewayVars>>
    /\ apc = "classify"
    /\ LET text == WorkingText(Issues[idx])
       IN  \E o \in (IF text = <<>> THEN OutcomesBlank
                      ELSE IF client # None \/ client_available
                           THEN OutcomesService
                           ELSE OutcomesNoClient) :
             /\ calls' = o.calls
             /\ first_attempt' = o.first
             /\ client' = IF text # <<>> /\ client_available THEN "client"
                          ELSE client
             /\ IF o.raised
                THEN /\ apc' = "aggregate"
                     /\ loop_exit' = "error"
                     /\ mid_item_stop' = TRUE
                     /\ UNCHANGED <<tech_per_issue, idx, processed_this_run>>
                ELSE /\ tech_per_issue' =
                            append_jsonl(tech_per_issue,
                                         [key |-> Issues[idx].key,
                                          label |-> o.label])
                     /\ processed_this_run' = processed_this_run + 1
                     /\ idx' = idx + 1
                     /\ apc' = "loop"
                     /\ UNCHANGED <<loop_exit, mid_item_stop>>
    /\ UNCHANGED <<issues_all, client_available, servers_per_issue,
                   tech_counts, server_counts, unresolved_json,
                   processed_complete, aruns, servers0, tech0>>

\* the loop ran to the end of the collection
LoopEnd ==
    /\ UNCHANGED <<fetchVars, gatewayVars>>
    /\ apc = "loop"
    /\ idx > Len(Issues)
    /\ apc' = "aggregate"
    /\ loop_exit' = "finished"
    /\ UNCHANGED <<issues_all, client_available, servers_per_issue,
                   tech_per_issue, tech_counts, server_counts,
                   unresolved_json, idx, processed_complete,
                   processed_this_run, client, aruns, servers0, tech0,
                   mid_item_stop, calls, first_attempt>>


\* AnalyzeInterrupt with a handler that exits, as the one of fetch_and_save
AnalyzeInterrupt_Exits ==
    /\ UNCHANGED <<fetchVars, gatewayVars>>
    /\ apc \in {"loop", "classify"}
    /\ apc' = "exited"
    /\ loop_exit' = "interrupted"
    /\ mid_item_stop' = (mid_item_stop \/ apc = "classify")
    /\ UNCHANGED <<issues_all, client_available, servers_per_issue,
                   tech_per_issue, tech_counts, server_counts,
                   unresolved_json, idx, processed_complete,
                   processed_this_run, client, aruns, servers0, tech0,
                   calls, first_attempt>>

\* KeyboardInterrupt inside the loop and its handler in main
AnalyzeInterrupt ==
    /\ UNCHANGED <<fetchVars, gatewayVars>>
    /\ apc \in {"loop", "classify"}
    /\ apc' = "aggregate"
    /\ loop_exit' = "interrupted"
    /\ mid_item_stop' = (mid_item_stop \/ apc = "classify")
    /\ UNCHANGED <<issues_all, client_available, servers_per_issue,
                   tech_per_issue, tech_counts, server_counts,
                   unresolved_json, idx, processed_complete,
                   processed_this_run, client, aruns, servers0, tech0,
                   calls, first_attempt>>

\* aggregate_outputs with the two count files opened for appending
aggregate_outputs_AppendsToOutputs ==
    /\ UNCHANGED <<fetchVars, gatewayVars>>
    /\ apc = "aggregate"
    /\ \E labels \in {TechLabelsCounted(tech_per_issue)},
          servers \in {ServersCounted(servers_per_issue)} :
            /\ tech_counts' =
                   <<(IF tech_counts = Absent THEN <<>> ELSE tech_counts[1])
                     \o most_common(labels)>>
            /\ server_counts' =
                   <<(IF server_counts = Absent THEN <<>> ELSE server_counts[1])
                     \o most_common(servers)>>
    /\ unresolved_json' = <<Unresolved(issues_all, servers_per_issue)>>
    /\ apc' = "done"
    /\ UNCHANGED <<issues_all, client_available, servers_per_issue,
                   tech_per_issue, idx, processed_complete,
                   processed_this_run, client, aruns, servers0, tech0,
                   loop_exit, mid_item_stop, calls, first_attempt>>

\* aggregate_outputs(issues_all)
aggregate_outputs ==
    /\ UNCHANGED <<fetchVars, gatewayVars>>
    /\ apc = "aggregate"
    /\ \E labels \in {TechLabelsCounted(tech_per_issue)},
          servers \in {ServersCounted(servers_per_issue)} :
            /\ tech_counts' = <<most_common(labels)>>
            /\ server_counts' = <<most_common(servers)>>
    /\ unresolved_json' = <<Unresolved(issues_all, servers_per_issue)>>
    /\ apc' = "done"
    /\ UNCHANGED <<issues_all, client_available, servers_per_issue,
                   tech_per_issue, idx, processed_complete,
                   processed_this_run, client, aruns, servers0, tech0,
                   loop_exit, mid_item_stop, calls, first_attempt>>

ItemTexts ==
    { [summary |-> <<>>, description |-> <<>>],
      [summary |-> <<"db", "down">>, description |-> <<"srv-x">>],
      [summary |-> <<"srv-ab1">>, description |-> <<"SRV-AB1", "srv-db02">>] }

KeyOf(i) == IF i = 1 THEN "K1" ELSE IF i = 2 THEN "K2" ELSE IF i = 3 THEN "K3" ELSE "K4"

\* the collections written by the fetch pipeline: one item per key
Collections ==
    UNION {{[i \in 1..m |-> [key |-> KeyOf(i), summary |-> t[i].summary,
                             description |-> t[i].description]]
            : t \in [1..m -> ItemTexts]} : m \in 0..MaxIssues}

AnalyzeVarsInit ==
    /\ issues_all \in Collections
    /\ client_available \in BOOLEAN
    /\ servers_per_issue = <<>>
    /\ tech_per_issue = <<>>
    /\ tech_counts = Absent
    /\ server_counts = Absent
    /\ unresolved_json = Absent
    /\ apc = "idle"
    /\ idx = 1
    /\ processed_complete = {}
    /\ processed_this_run = 0
    /\ client = None
    /\ aruns = 0
    /\ servers0 = <<>>
    /\ tech0 = <<>>
    /\ loop_exit = "running"
    /\ mid_item_stop = FALSE
    /\ calls = 0
    /\ first_attempt = "none"

\* the fetch pipeline at rest
FetchIdle ==
    /\ resultSet = <<>>
    /\ page_size = 1
    /\ partial_file = <<>>
    /\ checkpoint_file = Absent
    /\ tmp_file = Absent
    /\ out_json = Absent
    /\ pc = "idle"
    /\ saved_keys = {}
    /\ token = NoToken
    /\ page_index = 0
    /\ data = NoData
    /\ pos = 0
    /\ exit_code = None
    /\ runs = 0
    /\ partial0 = <<>>
    /\ out_json0 = Absent
    /\ fellBack = FALSE

\* the analyze pipeline at rest
AnalyzeIdle ==
    /\ issues_all = <<>>
    /\ client_available = TRUE
    /\ servers_per_issue = <<>>
    /\ tech_per_issue = <<>>
    /\ tech_counts = Absent
    /\ server_counts = Absent
    /\ unresolved_json = Absent
    /\ apc = "idle"
    /\ idx = 1
    /\ processed_complete = {}
    /\ processed_this_run = 0
    /\ client = None
    /\ aruns = 0
    /\ servers0 = <<>>
    /\ tech0 = <<>>
    /\ loop_exit = "running"
    /\ mid_item_stop = FALSE
    /\ calls = 0
    /\ first_attempt = "none"

\* no call of classify_technology from outside main
GatewayIdle ==
    /\ g_text = <<>>
    /\ g_available = TRUE
    /\ g_first = [err |-> TRUE, content |-> <<>>]
    /\ g_second = [err |-> TRUE, content |-> <<>>]
    /\ g_result = Absent
    /\ gpc = "idle"

AnalyzeInit == FetchIdle /\ AnalyzeVarsInit /\ GatewayIdle

AnalyzeNext ==
    \/ AnalyzeStart
    \/ SkipIssue
    \/ ExtractIssue
    \/ ClassifyIssue
    \/ LoopEnd
    \/ AnalyzeInterrupt
    \/ aggregate_outputs

AnalyzeSpec == AnalyzeInit /\ [][AnalyzeNext]_vars

\* the scheduler runs the single thread of the analyze process
AnalyzeFairSpec == AnalyzeSpec /\ WF_vars(AnalyzeNext)


Init == FetchInit /\ AnalyzeIdle /\ GatewayIdle

\* ------------------------------------ materialize_json_from_jsonl alone
\* The finalization step run on a log file as it may be found on disk: the
\* records are whatever earlier processes, overlapping ones included, left.
MaterializeInit ==
    /\ AnalyzeIdle
    /\ GatewayIdle
    /\ resultSet = <<>>
    /\ page_size = 1
    /\ partial_file \in SeqsUpTo(Keys, MaxLogLen)
    /\ checkpoint_file = Absent
    /\ tmp_file = Absent
    /\ out_json = Absent
    /\ pc = "returned"
    /\ saved_keys = load_saved_keys(partial_file)
    /\ token = NoToken
    /\ page_index = 0
    /\ data = NoData
    /\ pos = 0
    /\ exit_code = None
    /\ runs = 1
    /\ partial0 = partial_file
    /\ out_json0 = Absent
    /\ fellBack = FALSE

\* the step run once more on the same log
MaterializeAgain ==
    /\ UNCHANGED <<analyzeVars, gatewayVars>>
    /\ pc = "done"
    /\ runs < MaxRuns
    /\ runs' = runs + 1
    /\ out_json0' = out_json
    /\ out_json' = <<materialize_json_from_jsonl(partial_file)>>
    /\ UNCHANGED <<resultSet, page_size, partial_file, checkpoint_file,
                   tmp_file, pc, saved_keys, token, page_index, data, pos,
                   exit_code, partial0, fellBack>>

MaterializeNext == Materialize \/ MaterializeAgain

MaterializeSpec == MaterializeInit /\ [][MaterializeNext]_vars

\* ------------------------------------------- classify_technology alone
\* A text is a sequence of tokens: words and whitespace characters.
GatewayTexts == { <<>>, <<" ">>, <<" ", "\n">>, <<"db", "down">>,
                  <<" ", "db", "\n">> }

\* a caller with some text, and a service that behaves in some way
GatewayInit ==
    /\ FetchIdle
    /\ AnalyzeIdle
    /\ g_text \in GatewayTexts
    /\ g_available \in BOOLEAN
    /\ g_first \in Attempts
    /\ g_second \in Attempts
    /\ g_result = Absent
    /\ gpc = "ready"

\* label = classify_technology(text)
CallClassify ==
    /\ UNCHANGED <<fetchVars, analyzeVars>>
    /\ gpc = "ready"
    /\ g_result' = <<classify_technology(g_text, g_available, g_first, g_second)>>
    /\ gpc' = "returned"
    /\ UNCHANGED <<g_text, g_available, g_first, g_second>>

GatewayNext == CallClassify

GatewaySpec == GatewayInit /\ [][GatewayNext]_vars

Spec == Init /\ [][Next]_vars

\* the process is killed inside the write of append_issue: the log is left
\* with the beginning of the record and no newline
AppendKilled ==
    /\ UNCHANGED <<analyzeVars, gatewayVars>>
    /\ pc = "items"
    /\ pos <= Len(data.issues)
    /\ data.issues[pos] # NoKey
    /\ data.issues[pos] \notin saved_keys
    /\ partial_file' = append_issue_cut(partial_file)
    /\ pc' = "killed"
    /\ exit_code' = "killed"
    /\ UNCHANGED <<resultSet, page_size, checkpoint_file, tmp_file, out_json,
                   saved_keys, token, page_index, data, pos, runs, partial0,
                   out_json0, fellBack>>

CrashNext == Next \/ AppendKilled

\* the fetch pipeline with kills that fall inside a write to the log
CrashSpec == Init /\ [][CrashNext]_vars

\* the scheduler runs the single thread of a started fetch process, and every
\* request is answered or fails (requests.post has a timeout); interruptions,
\* kills and new runs may or may not happen
FetchFairSpec == Spec /\ WF_vars(FetchStep)

\* ------------------------------------------------- the two commands
\* Either command is run in its own working directory: fetch_issues.py on a
\* source, or analyze.py on a collection.
PipelineInit == Init \/ AnalyzeInit

\* analyze.py was not run in this directory
NoAnalyzeRun == apc = "idle" /\ aruns = 0

\* fetch_issues.py was not run in this directory
NoFetchRun == pc = "idle" /\ runs = 0

PipelineNext ==
    \/ NoAnalyzeRun /\ FetchStart
    \/ NoAnalyzeRun /\ PostOk
    \/ NoAnalyzeRun /\ PostHTTPError
    \/ NoAnalyzeRun /\ PostOtherError
    \/ NoAnalyzeRun /\ ProcessIssue
    \/ NoAnalyzeRun /\ PageDone
    \/ NoAnalyzeRun /\ CheckpointReplace
    \/ NoAnalyzeRun /\ Materialize
    \/ NoAnalyzeRun /\ FetchInterrupt
    \/ NoAnalyzeRun /\ FetchKilled
    \/ NoFetchRun /\ AnalyzeStart
    \/ NoFetchRun /\ SkipIssue
    \/ NoFetchRun /\ ExtractIssue
    \/ NoFetchRun /\ ClassifyIssue
    \/ NoFetchRun /\ LoopEnd
    \/ NoFetchRun /\ AnalyzeInterrupt
    \/ NoFetchRun /\ aggregate_outputs

PipelineSpec == PipelineInit /\ [][PipelineNext]_vars

\* =====================================================================
\*                               claims
\* =====================================================================
SourceKeys == Range(resultSet) \ {NoKey}

Last(s) == s[Len(s)]

\* the records appended to the log since the current fetch run started
AppendedThisRun == SubSeq(partial_file, Len(partial0) + 1, Len(partial_file))

C2_FallbackRestartsWithoutDuplicates ==
    /\ (fellBack /\ pc = "request" /\ page_index = 0) => token = NoToken
    /\ (fellBack /\ pc \in {"returned", "done"}) =>
           /\ Range(AppendedThisRun) \cap load_saved_keys(partial0) = {}
           /\ \A k \in SourceKeys : Occurrences(partial_file, k) = 1

\* a run that found records in the log, fell back, appended and completed
C2_Witness ==
    /\ pc = "done"
    /\ fellBack
    /\ partial0 # <<>>
    /\ Len(partial_file) > Len(partial0)

\* the count a frequency table gives for an item
CountIn(table, item) ==
    IF \E i \in 1..Len(table) : table[i].item = item
    THEN (CHOOSE e \in Range(table) : e.item = item).count
    ELSE 0

RECURSIVE SumCounts(_)
SumCounts(table) ==
    IF table = <<>> THEN 0 ELSE Head(table).count + SumCounts(Tail(table))

\* the server mentions of the collection, every issue taken once
RECURSIVE MentionsUpTo(_)
MentionsUpTo(n) ==
    IF n = 0 THEN <<>>
    ELSE MentionsUpTo(n - 1) \o extract_servers(WorkingText(Issues[n]))

MentionsOnce == MentionsUpTo(Len(Issues))

\* C3: after a run was stopped between the two appends of an issue, a resumed
\* run that finishes the loop aggregates the same counts as if every issue
\* had been processed exactly once.
C3_ResumeKeepsAggregates ==
    (mid_item_stop /\ apc = "done" /\ loop_exit = "finished") =>
        /\ \A s \in ServerWords :
               CountIn(server_counts[1], s) = Occurrences(MentionsOnce, s)
        /\ SumCounts(tech_counts[1]) = Len(Issues)

C5_ClassifyNeverRaises == loop_exit # "error"

\* C6 (as claimed): when an interruption stops the fetch, the collection is
\* materialized from the records that are in the log.
C6_InterruptFinalizes ==
    pc = "exited" =>
        out_json = <<materialize_json_from_jsonl(partial_file)>>

\* C6 (amended): when an interruption stops the fetch, the process exits
\* with status 130 without finalizing: the collection is what it was before
\* the run, and the log still starts with the records it had.
C6_InterruptExitsWithoutFinalizing ==
    pc = "exited" =>
        /\ exit_code = "130"
        /\ out_json = out_json0
        /\ Len(partial_file) >= Len(partial0)
        /\ SubSeq(partial_file, 1, Len(partial0)) = partial0

\* an interrupted run that left records in the log and no collection
C6_Witness ==
    /\ pc = "exited"
    /\ Len(partial_file) > Len(partial0)
    /\ out_json = Absent

\* C7: when fetch_all_basic_resumable has returned normally, the checkpoint
\* on disk says that there are no more pages.
C7_ReturnedCheckpointIsLast ==
    pc \in {"returned", "done"} =>
        /\ checkpoint_file # Absent
        /\ checkpoint_file[1].isLast

\* C8: once the enrichment loop is entered, aggregate_outputs is eventually
\* run to its end, however the loop is left.
C8_AlwaysAggregates == (apc \in {"loop", "classify"}) ~> (apc = "done")

\* the aggregation ran after the loop was interrupted in the middle of an issue
C8_Witness ==
    /\ apc = "done"
    /\ loop_exit = "interrupted"
    /\ Len(servers_per_issue) > Len(tech_per_issue)
    /\ tech_counts # Absent

RecordsOf(log, k) == Cardinality({i \in 1..Len(log) : log[i].key = k})

DoneAtStart(k) ==
    /\ k \in load_processed_keys_from_jsonl(servers0)
    /\ k \in load_processed_keys_from_jsonl(tech0)

\* C9: every issue the loop of the current run has passed was skipped (no
\* record added) if and only if its key was in both logs when the run
\* started; otherwise one record was added to each log.
C9_SkippedIffInBothLogs ==
    aruns > 0 =>
        \A j \in 1..(idx - 1) :
            LET k == Issues[j].key
                added == IF DoneAtStart(k) THEN 0 ELSE 1
            IN  /\ RecordsOf(servers_per_issue, k) = RecordsOf(servers0, k) + added
                /\ RecordsOf(tech_per_issue, k) = RecordsOf(tech0, k) + added

\* the loop skipped a complete issue and reprocessed a half-done one
C9_Witness ==
    /\ apc = "loop"
    /\ \E j \in 1..(idx - 1) : DoneAtStart(Issues[j].key)
    /\ \E j \in 1..(idx - 1) :
           /\ Issues[j].key \in load_processed_keys_from_jsonl(servers0)
           /\ Issues[j].key \notin load_processed_keys_from_jsonl(tech0)

\* C10 (as claimed): when the first request fails with a transport error,
\* classify_technology sends exactly one more request.
C10_TransportErrorRetried == first_attempt = "error" => calls = 2

\* C10 (amended): when the first request fails with a transport error,
\* classify_technology sends no further request and returns 'unclassified'.
C10_TransportErrorFallsBack ==
    (first_attempt = "error" /\ apc = "loop") =>
        /\ calls = 1
        /\ tech_per_issue # <<>>
        /\ Last(tech_per_issue).label = UNCLASSIFIED_LABEL

\* a classification whose first request failed was recorded
C10_Witness ==
    /\ first_attempt = "error"
    /\ apc = "loop"
    /\ Last(tech_per_issue).label = UNCLASSIFIED_LABEL

\* =====================================================================
\*                     claims on classify_technology
\* =====================================================================
\* the result of the call made by CallClassify
Result == g_result[1]

\* the request was answered and the answer gives no allowed label
NoAllowedLabel(attempt) ==
    /\ ~attempt.err
    /\ ask_once(attempt).raised \/ ask_once(attempt).label \notin ALLOWED

\* the request was answered and the answer gives an allowed label
AllowedLabel(attempt) ==
    /\ ~attempt.err
    /\ ~ask_once(attempt).raised
    /\ ask_once(attempt).label \in ALLOWED

\* C11: for a non-blank text, when the first request is answered with
\* something that is not an allowed label, classify_technology sends exactly
\* one more request and returns the label of the second answer when it is
\* allowed and 'unclassified' otherwise; no call sends more than two requests.
C11_RetriesOnceOnUnlistedLabel ==
    gpc = "returned" =>
        /\ Result.calls <= 2
        /\ (Strip(g_text, Whitespace) # <<>> /\ g_available
                /\ NoAllowedLabel(g_first)) =>
               /\ ~Result.raised
               /\ Result.calls = 2
               /\ Result.label = IF AllowedLabel(g_second)
                                 THEN ask_once(g_second).label
                                 ELSE UNCLASSIFIED_LABEL

\* the raw response "Database."
DatabaseDot == <<"D", "a", "t", "a", "b", "a", "s", "e", ".">>

\* C12: a first response of "Database." is normalized (whitespace,
\* punctuation and quoting stripped, first word, lower case) to the allowed
\* label 'database', which the call returns after that single request.
C12_DatabaseDotIsDatabase ==
    (gpc = "returned" /\ Strip(g_text, Whitespace) # <<>> /\ g_available
         /\ g_first = [err |-> FALSE, content |-> DatabaseDot]) =>
        /\ ask_once(g_first) = [raised |-> FALSE, label |-> L_database]
        /\ Result = [raised |-> FALSE, label |-> L_database, calls |-> 1]

\* C19: for an empty text or a text of whitespace only, classify_technology
\* returns 'unclassified' without sending a request (and without building
\* the client).
C19_BlankTextShortCircuits ==
    (gpc = "returned" /\ \A i \in 1..Len(g_text) : g_text[i] \in Whitespace) =>
        Result = [raised |-> FALSE, label |-> UNCLASSIFIED_LABEL, calls |-> 0]

\* a call with a text of whitespace only, made without a usable client
C19_Witness ==
    /\ gpc = "returned"
    /\ g_text = <<" ", "\n">>
    /\ ~g_available
    /\ Result.label = UNCLASSIFIED_LABEL

\* =====================================================================
\*                 claims on materialize_json_from_jsonl
\* =====================================================================
\* C13: whatever the log holds, a key recorded more than once included, the
\* collection written by materialize_json_from_jsonl has at most one item
\* per key, and running the step again on the same log writes the same
\* collection.
C13_MaterializeDeduplicates ==
    pc = "done" =>
        /\ \A k \in Keys : Occurrences(out_json[1], k) <= 1
        /\ out_json0 # Absent => out_json = out_json0

\* =====================================================================
\*                 claims on the enrichment pipeline (2)
\* =====================================================================
ClosedLabelSet == TECH_LABELS \cup {UNCLASSIFIED_LABEL}

\* C14: every label in the classification log, and every label counted in
\* the technology counts, is one of database, networking, authentication,
\* api, storage, unclassified.
C14_LabelsInClosedSet ==
    /\ \A i \in 1..Len(tech_per_issue) :
           tech_per_issue[i].label \in ClosedLabelSet
    /\ tech_counts # Absent =>
           \A i \in 1..Len(tech_counts[1]) :
               tech_counts[1][i].item \in ClosedLabelSet

\* a call whose two answers gave no allowed label was recorded and counted,
\* next to an issue that got an allowed label
C14_Witness ==
    /\ apc = "done"
    /\ first_attempt = "answer"
    /\ calls = 2
    /\ Last(tech_per_issue).label = UNCLASSIFIED_LABEL
    /\ \E i \in 1..Len(tech_counts[1]) : tech_counts[1][i].item \in TECH_LABELS
    /\ \E i \in 1..Len(tech_counts[1]) :
           tech_counts[1][i].item = UNCLASSIFIED_LABEL

\* C15: when aggregate_outputs runs again and the two logs are as they were
\* when it ran last (the run in between appended nothing), the three output
\* files come out as they were.
C15_AggregateTwiceSame ==
    [][(/\ apc = "aggregate"
        /\ apc' = "done"
        /\ aruns >= 2
        /\ servers_per_issue = servers0
        /\ tech_per_issue = tech0)
       => /\ tech_counts' = tech_counts
          /\ server_counts' = server_counts
          /\ unresolved_json' = unresolved_json]_vars

\* a second aggregation over unchanged logs that hold records and servers
C15_Witness ==
    /\ apc = "done"
    /\ aruns >= 2
    /\ servers_per_issue = servers0
    /\ tech_per_issue = tech0
    /\ tech_counts[1] # <<>>
    /\ server_counts[1] # <<>>
    /\ unresolved_json[1] # <<>>

\* the issue at index j mentions no server
NoServers(j) == extract_servers(WorkingText(Issues[j])) = <<>>

\* C16: an issue without a server identifier that the loop has passed has an
\* extraction record {key, servers: []} and a classification record, and
\* once aggregate_outputs has run its key is in the unresolved report.
C16_NoServerItemProcessed ==
    aruns > 0 =>
        \A j \in 1..(idx - 1) :
            NoServers(j) =>
                /\ \E i \in 1..Len(servers_per_issue) :
                       servers_per_issue[i] =
                           [key |-> Issues[j].key, servers |-> <<>>]
                /\ \E i \in 1..Len(tech_per_issue) :
                       tech_per_issue[i].key = Issues[j].key
                /\ apc = "done" =>
                       \E i \in 1..Len(unresolved_json[1]) :
                           unresolved_json[1][i].key = Issues[j].key

\* a finished run over an issue with text but no server and an issue with
\* servers: the report lists the first and not the second
C16_Witness ==
    /\ apc = "done"
    /\ loop_exit = "finished"
    /\ \E j \in 1..(idx - 1) : NoServers(j) /\ WorkingText(Issues[j]) # <<>>
    /\ Len(unresolved_json[1]) >= 1
    /\ Len(unresolved_json[1]) < Len(Issues)

\* =====================================================================
\*                   claims on the fetch pipeline (2)
\* =====================================================================
\* C17: a request sent without a cursor is never followed by another request
\* for the same page (no retry): it is answered, or the run ends.  When it
\* fails, the error propagates (the run is fatal) and the log and the
\* checkpoint are as they were before the request.
C17_CursorlessRejectionIsFatal ==
    [][(pc = "request" /\ token = NoToken)
       => /\ pc' # "request"
          /\ pc' = "failed" =>
                 /\ exit_code' = "1"
                 /\ partial_file' = partial_file
                 /\ checkpoint_file' = checkpoint_file]_vars

\* a run that fell back and whose request without a cursor then failed, with
\* records in the log and a checkpoint on disk
C17_Witness ==
    /\ pc = "failed"
    /\ token = NoToken
    /\ fellBack
    /\ partial_file # <<>>
    /\ checkpoint_file # Absent

\* C18: whatever step a kill falls on, the checkpoint file is never a
\* partial text: every step leaves it as it was (the complete previous
\* checkpoint, or absent), or replaces it by the complete new checkpoint that
\* the temporary file holds; so read_checkpoint returns the one or the other.
C18_CheckpointWriteIsAtomic ==
    [][/\ read_checkpoint(checkpoint_file') = checkpoint_file'
       /\ \/ checkpoint_file' = checkpoint_file
          \/ /\ pc = "replace"
             /\ tmp_file = checkpoint_tmp(checkpoint_file'[1])
             /\ checkpoint_file'[1].page_index = page_index]_vars

\* a kill inside the write of the temporary file, with an earlier checkpoint
\* on disk that is still complete
C18_Witness ==
    /\ pc = "killed"
    /\ tmp_file # Absent
    /\ read_checkpoint(tmp_file) = Absent
    /\ checkpoint_file # Absent
    /\ read_checkpoint(checkpoint_file) = checkpoint_file

\* C20: a fetch run that is inside the loop of fetch_all_basic_resumable
\* eventually leaves it: it returns, raises, or the process is stopped.
C20_FetchLoopTerminates ==
    (pc \in {"request", "items", "replace"})
        ~> (pc \notin {"request", "items", "replace"})

\* =====================================================================
\*                 claims on crashes inside a write to the log
\* =====================================================================
\* C21: whatever partial record a crash left at the end of the log, every
\* record a running fetch has appended (and every record it found) is
\* returned by a scan of the log, and when the run completes all of them are
\* in the consolidated collection.
C21_OnlyPartialRecordLost ==
    /\ pc \in {"request", "items", "replace", "returned", "done"} =>
           saved_keys \subseteq load_saved_keys(partial_file)
    /\ pc = "done" => saved_keys \subseteq Range(out_json[1])

\* ---------------------------------------------------------------- C22
\* the lines of a log that parse and carry a key hold no key twice
NoDuplicateKeys(log) ==
    \A i, j \in 1..Len(log) :
        (i # j /\ log[i] = log[j]) => log[i] \in {NoKey} \cup Unparseable

\* the run is inside fetch_all_basic_resumable, or it has just returned
FetchRunning == pc \in {"request", "items", "replace", "returned"}

\* C22: in every state of a fetch run that started from a log without
\* duplicate keys, no key occurs in two records of the log, and the known-key
\* set of the run equals the set of keys a scan of the log returns.
C22_LogMatchesKnownKeys ==
    (FetchRunning /\ NoDuplicateKeys(partial0)) =>
        /\ NoDuplicateKeys(partial_file)
        /\ saved_keys = load_saved_keys(partial_file)

\* ---------------------------------------------------------------- C23
\* the number of items of the result set on the pages before the cursor
\* stored in a checkpoint (none when it stores no cursor: the next run then
\* starts at the first page)
ItemsBefore(cp) == Offset(cp.nextPageToken)

\* C23: whatever checkpoint is on disk, every keyed item of the pages before
\* its cursor has a record that a scan of the log returns.
C23_CheckpointNeverAheadOfLog ==
    LET checkpoint == read_checkpoint(checkpoint_file)
    IN  checkpoint # Absent =>
            \A i \in 1..ItemsBefore(checkpoint[1]) :
                resultSet[i] # NoKey =>
                    resultSet[i] \in load_saved_keys(partial_file)

\* =====================================================================
\*                     claim on the order of the records
\* =====================================================================
\* the position at which the source returns key k first
FirstRetrieved(k) ==
    CHOOSE i \in 1..Len(resultSet) :
        resultSet[i] = k /\ \A j \in 1..(i - 1) : resultSet[j] # k

\* the position of key k in the collection
PositionInCollection(k) ==
    CHOOSE i \in 1..Len(Issues) : Issues[i].key = k

\* the records appended to each enrichment log since the current run started
ExtractedThisRun ==
    SubSeq(servers_per_issue, Len(servers0) + 1, Len(servers_per_issue))

ClassifiedThisRun ==
    SubSeq(tech_per_issue, Len(tech0) + 1, Len(tech_per_issue))

\* fetch: a write to the log is the record of the item being processed, put
\* at the end of the log, and the loop then moves to the next item of the page
FetchAppendsInOrder ==
    partial_file' # partial_file =>
        /\ pc = "items" /\ pos <= Len(data.issues)
        /\ partial_file' = Append(partial_file, data.issues[pos])
        /\ pos' = pos + 1

\* fetch: the records of the log are in the order in which the source
\* returns their items
FetchLogInSourceOrder ==
    \A i, j \in 1..Len(partial_file) :
        i < j => /\ partial_file[i] \in SourceKeys
                 /\ partial_file[j] \in SourceKeys
                 /\ FirstRetrieved(partial_file[i]) < FirstRetrieved(partial_file[j])

\* enrichment: a write to a log is a record of the item being processed, put
\* at the end of that log; the classification record follows the extraction
\* record of the same item
AnalyzeAppendsInOrder ==
    /\ servers_per_issue' # servers_per_issue =>
           /\ apc = "loop" /\ idx <= Len(Issues)
           /\ Len(servers_per_issue') = Len(servers_per_issue) + 1
           /\ SubSeq(servers_per_issue', 1, Len(servers_per_issue)) = servers_per_issue
           /\ Last(servers_per_issue').key = Issues[idx].key
           /\ tech_per_issue' = tech_per_issue
    /\ tech_per_issue' # tech_per_issue =>
           /\ apc = "classify"
           /\ Len(tech_per_issue') = Len(tech_per_issue) + 1
           /\ SubSeq(tech_per_issue', 1, Len(tech_per_issue)) = tech_per_issue
           /\ Last(tech_per_issue').key = Issues[idx].key
           /\ Last(servers_per_issue).key = Issues[idx].key
           /\ servers_per_issue' = servers_per_issue

\* enrichment: the records a run appended are in the order of the
\* collection, the classified items are the first of the extracted ones, and
\* at most the last extracted item is still without its classification
AnalyzeLogsInCollectionOrder ==
    /\ \A i, j \in 1..Len(ExtractedThisRun) :
           i < j => PositionInCollection(ExtractedThisRun[i].key)
                        < PositionInCollection(ExtractedThisRun[j].key)
    /\ Len(ClassifiedThisRun) <= Len(ExtractedThisRun)
    /\ Len(ExtractedThisRun) <= Len(ClassifiedThisRun) + 1
    /\ \A i \in 1..Len(ClassifiedThisRun) :
           ClassifiedThisRun[i].key = ExtractedThisRun[i].key

\* C24: in each pipeline the records are appended in processing order, which
\* is the order of the source (fetch) or of the collection (enrichment); the
\* extraction record of an item is appended before its classification
\* record, and no record of a later item before both records of an earlier
\* item processed in the run.
C24_AppendOrderIsProcessingOrder ==
    /\ [](FetchLogInSourceOrder /\ AnalyzeLogsInCollectionOrder)
    /\ [][FetchAppendsInOrder /\ AnalyzeAppendsInOrder]_vars

\* the second item's extraction record was appended after both records of the
\* first item, and its classification record is still to come
C24_Witness ==
    /\ apc = "classify" /\ idx = 2
    /\ Len(ExtractedThisRun) = 2 /\ Len(ClassifiedThisRun) = 1
    /\ ExtractedThisRun[1].key = Issues[1].key
    /\ ExtractedThisRun[2].key = Issues[2].key
    /\ ClassifiedThisRun[1].key = Issues[1].key
====
